---- MODULE Spec2Model ----
(***************************************************************************)
(* One node of netapp_sim: the consumer task send_request                  *)
(* (protocol.py 468-635), the answering machine MyProtocolAM               *)
(* (protocol.py 203-395) that runs beside it in its own sniffing thread,   *)
(* the reservation ledger (simulator.py) and the asynchronous _save        *)
(* (protocol.py 638-644).                                                  *)
(*                                                                         *)
(* The other hosts of the segment are the environment.  A peer sends the   *)
(* node only packets that answer something the node sent it (an HRES for   *)
(* a broadcast HREQ, RRES/RCAN after an RREQ, DRES/DWAIT/DCAN after a      *)
(* DREQ), at any later time and any number of times, and HREQs of its own. *)
(* Every inbound packet is seen by the answering machine (sniff filter     *)
(* 'inbound') and, when send_request is blocked in srp1/sr1/sniff and the  *)
(* packet matches, by send_request as well: the two are separate threads   *)
(* and their steps interleave.                                             *)
(***************************************************************************)
EXTENDS Integers, Sequences, FiniteSets, TLC

VARIABLES
    req,        \* the consumer-side Request of this send_request call (requests[req_id])
    attempts,   \* req.attempts: attempt_no -> Attempt, as a sequence
    loc,        \* send_request's position and locals
    am,         \* the answering machine thread: alive, position, packet in hand
    amq,        \* packets sniffed by the answering machine and not yet handled
    prequests,  \* _requests: provider-side entries, keyed by (address, req_id)
    reserved,   \* simulator._reserved: <<cpu, ram, disk>>
    sent,       \* what the node has put on the wire for this request
    responses,  \* whether req_id is a key of _responses
    saved,      \* the _save thread and the rows it has inserted
    clock,      \* number of time() readings so far
    delivered,  \* number of packets delivered to the node so far
    dresWrites, \* number of assignments to req.dres_at so far
    call,       \* the last call of the ledger (simulator.py) and its outcome
    requests,   \* the keys of requests: the request ids registered on the node
    callers,    \* the calls of send_request before line 478: position and id
    codec,      \* a MyProtocol packet, its bytes on the wire and its dissection
    db          \* dblib: _queue, _rows, the worker _execute and the calling tasks

vars == <<req, attempts, loc, am, amq, prequests, reserved, sent, responses,
          saved, clock, delivered, dresWrites, call, requests, callers,
          codec, db>>

(* an unused codec, and dblib with no operation under way *)
NoCodec == [pc |-> "off"]

NoDb == [pc |-> "off"]

(* the registry of request ids and the calls that are generating one, and  *)
(* the parts of the node that the request protocol leaves alone            *)
ids == <<requests, callers, codec, db>>

----------------------------------------------------------------------------
(* Bounds of the model *)
MaxIds == 3

MaxCallers == 2


MaxPackets == 3     \* packets delivered to the node in one run
MaxQueue == 1       \* packets waiting for the answering machine
DeepAttempts == 2   \* attempts in the deeper runs of SpecDeep
DeepPackets == MaxPackets + 3
LivePackets == 3    \* packets delivered during one outer attempt in SpecLive

(* Program constants *)

PROTO_RETRIES == 3

Hosts == {"B", "C"}
CosIds == {1, 2}
None == "None"

HREQ == "HREQ"
HRES == "HRES"
RREQ == "RREQ"
RRES == "RRES"
RCAN == "RCAN"
DREQ == "DREQ"
DRES == "DRES"
DACK == "DACK"
DCAN == "DCAN"
DWAIT == "DWAIT"
FAIL == "FAIL"

(* The registry of request ids, protocol.py 65-69 and 460-476.  An id is   *)
(* ten characters drawn at random; the placeholder '_' is a key of the     *)
(* registry from the start and is never drawn: it is id 0 here, the ids   *)
(* that can be drawn are 1..MaxIds.                                        *)
Placeholder == 0

Ids == 1..MaxIds

(* the id under which the request followed by send_request is registered *)
ReqId == 1

Callers == 1..MaxCallers

NoCallers == [c \in {} |-> None]

(* The addresses of the node itself *)
MY_IP == "A"

DEFAULT_IP == "D"

(* Python values of the two string types: a dissected req_id is bytes,    *)
(* the literal of line 226 is str.  Empty is the content of length zero.  *)
Empty == -1

Bytes(x) == <<"bytes", x>>

Str(x) == <<"str", x>>

(* x != y of Python 3: values of different types are never equal *)
PyNe(x, y) == x # y

(* bytes.decode() *)
Decode(b) == b[2]

(* A MyProtocol packet with its IP source.  attempt_no is carried by HREQ, *)
(* HRES, DREQ and DRES; data by DREQ and DRES; cos_id by HREQ.  The req_id *)
(* is the one of the request that send_request follows, unless changed.   *)
Pkt(st, src, no, cos, data) ==
    [state |-> st, src |-> src, attempt_no |-> no, cos_id |-> cos,
     data |-> data, req_id |-> Bytes(ReqId)]

(* Python's None where a packet is expected (srp1/sr1 timed out) *)
NoPkt == Pkt(None, None, 0, 0, None)

(* the bytes peer h returns as the result of the execution *)
ResultOf(h) == IF h = "B" THEN "resultB" ELSE "resultC"

(* time(): each reading is later than the readings before it *)
Time == clock + 1

----------------------------------------------------------------------------
(* The reservation ledger, simulator.py.  Quantities are <<cpu, ram, disk>> *)

(* CPU, RAM and DISK of the host (lines 60, 67, 74), simulation active *)
Capacity == <<2, 2, 2>>

(* Request.get_min_cpu, get_min_ram, get_min_disk: the minimums of the CoS *)
MinReq(cos) == IF cos = 1 THEN <<1, 1, 1>> ELSE <<3, 1, 1>>

(* get_resources, lines 147-174: what is left for reservation *)
get_resources(res) == [i \in 1..3 |-> Capacity[i] - res[i]]

Sufficient(avail, cos) == \A i \in 1..3 : avail[i] >= MinReq(cos)[i]

(* check_resources, lines 177-191: a single bool *)
check_resources(res, cos) == Sufficient(get_resources(res), cos)

(* reserve_resources, lines 194-216.  Line 208 unpacks the value of        *)
(* get_resources into five names; with any other number of values the     *)
(* assignment raises ValueError and the ledger is left as it was.          *)
reserve_resources(res, cos) ==
    LET avail == get_resources(res) IN
    IF Len(avail) # 5
    THEN [ret |-> "ValueError", reserved |-> res]
    ELSE IF Sufficient(avail, cos)
         THEN [ret |-> "True",
               reserved |-> [i \in 1..3 |-> res[i] + MinReq(cos)[i]]]
         ELSE [ret |-> "False", reserved |-> res]

(* lines 228-237: a counter that went below zero is set to zero *)
NoClamp(x) == x

Clamp(x) == IF x < 0 THEN 0 ELSE x

(* free_resources, lines 219-238 *)
free_resources(res, cos) ==
    [ret |-> "True",
     reserved |-> [i \in 1..3 |-> Clamp(res[i] - MinReq(cos)[i])]]

(* a call of the ledger: the function, the CoS of the request, what it     *)
(* returned and the ledger before the call                                 *)
Call(op, cos, ret, before) ==
    [op |-> op, cos |-> cos, ret |-> ret, before |-> before]

NoCall == Call(None, 0, None, <<0, 0, 0>>)

PyBool(b) == IF b THEN "True" ELSE "False"

----------------------------------------------------------------------------
(* Attempt.__init__ *)
NewAttempt ==
    [attempt_no |-> 0, host |-> None, state |-> None, hreq_at |-> 0,
     hres_at |-> 0, rres_at |-> 0, dres_at |-> 0]

(* Request.new_attempt: self._attempt_no += 1 *)
SameAttemptNo(n) == n

NextAttemptNo(n) == n + 1

(* new_attempt returns the Attempt it has just filed: the local variable   *)
(* `attempt` of send_request refers to the newest Attempt of the request   *)
FirstAttempt(atts) == 1

ReturnedAttempt(atts) == Len(atts) + 1

(* Request.__init__ as called by send_request *)
NewRequest ==
    [state |-> None, host |-> None, result |-> None, hreq_at |-> 0,
     dres_at |-> 0, late |-> FALSE, attempt_no |-> 0]

----------------------------------------------------------------------------
(* line 478: hreq_rt = PROTO_RETRIES *)
OneMoreHreq == PROTO_RETRIES + 1

HreqBudget == PROTO_RETRIES

Init ==
    /\ req = NewRequest
    /\ attempts = <<>>
    /\ loc = [pc |-> "L483", hreq_rt |-> HreqBudget, rreq_rt |-> 0,
              dreq_rt |-> 0, hres |-> NoPkt, rres |-> NoPkt, dres |-> NoPkt,
              attempt |-> 0, ret |-> None]
    /\ am = [alive |-> TRUE, pc |-> "idle"]
    /\ amq = <<>>
    /\ prequests = [h \in {} |-> None]
    /\ reserved = <<0, 0, 0>>
    /\ sent = [hreq |-> 0, rreq |-> {}, dreq |-> {},
               hres |-> [h \in Hosts |-> 0], offer |-> None,
               rcan |-> [h \in Hosts |-> 0],
               dcan |-> [h \in Hosts |-> 0], dack |-> [h \in Hosts |-> 0]]
    /\ responses = FALSE
    /\ saved = [st |-> "idle", state |-> None, dres_at |-> 0, result |-> None,
                host |-> None, attempts |-> <<>>]
    /\ clock = 0
    /\ delivered = 0
    /\ dresWrites = 0
    /\ call = NoCall
    /\ requests = {Placeholder, ReqId}
    /\ callers = NoCallers
    /\ codec = NoCodec
    /\ db = NoDb

----------------------------------------------------------------------------
(* send_request, protocol.py 468-635.  The labels are source lines.  The   *)
(* task and the answering machine share req and attempts with no lock, so  *)
(* every test of req.dres_at and the writes that depend on it are separate *)
(* steps.                                                                  *)

Truthy(pkt) == pkt # NoPkt

(* line 483: while not hres and hreq_rt and not req.dres_at *)
HreqLoopCond == ~Truthy(loc.hres) /\ loc.hreq_rt # 0 /\ req.dres_at = 0

(* line 512: while not rres and rreq_rt and not req.dres_at *)
RreqLoopCond == ~Truthy(loc.rres) /\ loc.rreq_rt # 0 /\ req.dres_at = 0

(* line 556: while not dres and dreq_rt and not req.dres_at *)
DreqLoopCond == ~Truthy(loc.dres) /\ loc.dreq_rt # 0 /\ req.dres_at = 0

(* line 509: a received HRES restores the HREQ budget *)
HreqBudgetAfterHres == PROTO_RETRIES

(* a DWAIT that leaves the DREQ budget as it is *)
NoReset(rt, pkt, host) == IF pkt.src # host THEN rt + 1 ELSE rt

(* lines 568-575: the DREQ budget after a reply to a DREQ *)
DreqBudgetAfterReply(rt, pkt, host) ==
    LET rt1 == IF pkt.src = host /\ pkt.state = DWAIT THEN PROTO_RETRIES ELSE rt
    IN  IF pkt.src # host THEN rt1 + 1 ELSE rt1

(* the DACK packets sent so far, one more to host h (lines 612-614 in     *)
(* send_request, 366-369 and 381-384 in make_reply)                        *)
NoDack(dack, h) == dack

SendDack(dack, h) == [dack EXCEPT ![h] = @ + 1]

(* the RCAN or DCAN replies of make_reply so far, one more to host h      *)
SendTo(count, h) == [count EXCEPT ![h] = @ + 1]

(* every DREQ phase that ends marks the request late *)
LateAfterEveryPhase(rt) == TRUE

(* lines 620-622: the request is marked late *)
MarksLate(rt) == rt = 0

T_L483 ==
    /\ loc.pc = "L483"
    /\ loc' = [loc EXCEPT !.pc = IF HreqLoopCond THEN "L484" ELSE "L629"]
    /\ UNCHANGED <<req, attempts, am, amq, prequests, reserved, sent,
                   responses, saved, clock, delivered, dresWrites, call, ids>>

(* lines 484-499: new attempt, broadcast HREQ, block in srp1 *)
T_L484 ==
    /\ loc.pc = "L484"
    /\ req' = [req EXCEPT !.host = None, !.state = HREQ,
                          !.attempt_no = NextAttemptNo(@),
                          !.hreq_at = IF @ = 0 THEN Time ELSE @]
    /\ attempts' = Append(attempts,
                          [NewAttempt EXCEPT
                             !.attempt_no = NextAttemptNo(req.attempt_no),
                             !.state = HREQ, !.hreq_at = Time])
    /\ clock' = Time
    /\ loc' = [loc EXCEPT !.attempt = ReturnedAttempt(attempts),
                          !.hreq_rt = @ - 1, !.pc = "srp1"]
    /\ sent' = [sent EXCEPT !.hreq = @ + 1]
    /\ UNCHANGED <<am, amq, prequests, reserved, responses, saved, delivered,
                   dresWrites, call, ids>>

(* line 500: if hres and not req.dres_at *)
T_L500 ==
    /\ loc.pc = "L500"
    /\ loc' = [loc EXCEPT !.pc = IF Truthy(loc.hres) /\ req.dres_at = 0
                                 THEN "L501" ELSE "L483"]
    /\ UNCHANGED <<req, attempts, am, amq, prequests, reserved, sent,
                   responses, saved, clock, delivered, dresWrites, call, ids>>

(* lines 501-511: the first HRES selects the host *)
T_L501 ==
    /\ loc.pc = "L501"
    /\ attempts' = [attempts EXCEPT ![loc.attempt].hres_at = Time,
                                    ![loc.attempt].state = RREQ,
                                    ![loc.attempt].host = loc.hres.src]
    /\ req' = [req EXCEPT !.state = RREQ, !.host = loc.hres.src]
    /\ clock' = Time
    /\ loc' = [loc EXCEPT !.hreq_rt = HreqBudgetAfterHres,
                          !.rreq_rt = PROTO_RETRIES,
                          !.rres = NoPkt, !.pc = "L512"]
    /\ UNCHANGED <<am, amq, prequests, reserved, sent, responses, saved,
                   delivered, dresWrites, call, ids>>

T_L512 ==
    /\ loc.pc = "L512"
    /\ loc' = [loc EXCEPT !.pc = IF RreqLoopCond THEN "L513" ELSE "L625"]
    /\ UNCHANGED <<req, attempts, am, amq, prequests, reserved, sent,
                   responses, saved, clock, delivered, dresWrites, call, ids>>

(* lines 513-519: send RREQ to req.host, block in sr1 *)
T_L513 ==
    /\ loc.pc = "L513"
    /\ loc' = [loc EXCEPT !.rreq_rt = @ - 1, !.pc = "sr1_rreq"]
    /\ sent' = [sent EXCEPT !.rreq = @ \cup {req.host}]
    /\ UNCHANGED <<req, attempts, am, amq, prequests, reserved, responses,
                   saved, clock, delivered, dresWrites, call, ids>>

(* lines 520-538: a reply from another host is left to the answering       *)
(* machine and the task sniffs for RRES or RCAN of the current host        *)
T_L520 ==
    /\ loc.pc = "L520"
    /\ loc' = [loc EXCEPT !.pc =
                 IF Truthy(loc.rres) /\ req.dres_at = 0
                 THEN IF loc.rres.src # req.host THEN "sniff_rres" ELSE "L541"
                 ELSE "L512"]
    /\ UNCHANGED <<req, attempts, am, amq, prequests, reserved, sent,
                   responses, saved, clock, delivered, dresWrites, call, ids>>

(* lines 541-555 *)
T_L541 ==
    /\ loc.pc = "L541"
    /\ IF loc.rres.state = RCAN
       THEN /\ attempts' = [attempts EXCEPT ![loc.attempt].state = RCAN]
            /\ loc' = [loc EXCEPT !.pc = "L512"]
            /\ UNCHANGED <<req, clock, call, ids>>
       ELSE /\ attempts' = [attempts EXCEPT ![loc.attempt].rres_at = Time,
                                            ![loc.attempt].state = DREQ]
            /\ req' = [req EXCEPT !.state = DREQ]
            /\ clock' = Time
            /\ loc' = [loc EXCEPT !.dreq_rt = PROTO_RETRIES, !.dres = NoPkt,
                                  !.pc = "L556"]
    /\ UNCHANGED <<am, amq, prequests, reserved, sent, responses, saved,
                   delivered, dresWrites, call, ids>>

T_L556 ==
    /\ loc.pc = "L556"
    /\ loc' = [loc EXCEPT !.pc = IF DreqLoopCond THEN "L557" ELSE "L619"]
    /\ UNCHANGED <<req, attempts, am, amq, prequests, reserved, sent,
                   responses, saved, clock, delivered, dresWrites, call, ids>>

(* lines 557-565: send DREQ to req.host, block in sr1 *)
T_L557 ==
    /\ loc.pc = "L557"
    /\ loc' = [loc EXCEPT !.dreq_rt = @ - 1, !.pc = "sr1_dreq"]
    /\ sent' = [sent EXCEPT !.dreq = @ \cup {<<req.host,
                                           attempts[loc.attempt].attempt_no>>}]
    /\ UNCHANGED <<req, attempts, am, amq, prequests, reserved, responses,
                   saved, clock, delivered, dresWrites, call, ids>>

(* lines 566-592 *)
T_L566 ==
    /\ loc.pc = "L566"
    /\ IF Truthy(loc.dres) /\ req.dres_at = 0
       THEN loc' = [loc EXCEPT
                      !.dreq_rt = DreqBudgetAfterReply(@, loc.dres, req.host),
                      !.pc = IF \/ loc.dres.src # req.host
                                \/ loc.dres.state = DWAIT
                             THEN "sniff_dres" ELSE "L593"]
       ELSE loc' = [loc EXCEPT !.pc = "L556"]
    /\ UNCHANGED <<req, attempts, am, amq, prequests, reserved, sent,
                   responses, saved, clock, delivered, dresWrites, call, ids>>

(* lines 593-600: DCAN ends the DREQ phase; otherwise test req.dres_at *)
T_L593 ==
    /\ loc.pc = "L593"
    /\ IF loc.dres.state = DCAN
       THEN /\ attempts' = [attempts EXCEPT ![loc.attempt].state = DCAN]
            /\ loc' = [loc EXCEPT !.pc = "L556"]
       ELSE /\ loc' = [loc EXCEPT !.pc = IF req.dres_at = 0
                                         THEN "L601" ELSE "L615"]
            /\ UNCHANGED attempts
    /\ UNCHANGED <<req, am, amq, prequests, reserved, sent, responses, saved,
                   clock, delivered, dresWrites, call, ids>>

(* lines 601-614: accept the DRES of the current host and send DACK *)
T_L601 ==
    /\ loc.pc = "L601"
    /\ req' = [req EXCEPT !.dres_at = Time, !.state = DRES,
                          !.result = loc.dres.data]
    /\ attempts' = [attempts EXCEPT ![loc.attempt].dres_at = Time,
                                    ![loc.attempt].state = DRES]
    /\ clock' = Time
    /\ dresWrites' = dresWrites + 1
    /\ sent' = [sent EXCEPT !.dack = SendDack(@, req.host)]
    /\ loc' = [loc EXCEPT !.pc = "L615"]
    /\ UNCHANGED <<am, amq, prequests, reserved, responses, saved, delivered,
                   call, ids>>

(* lines 615-616: start _save and return req.result *)
T_L615 ==
    /\ loc.pc = "L615"
    /\ saved' = [saved EXCEPT !.st = "started"]
    /\ loc' = [loc EXCEPT !.ret = req.result, !.pc = "done"]
    /\ UNCHANGED <<req, attempts, am, amq, prequests, reserved, sent,
                   responses, clock, delivered, dresWrites, call, ids>>

(* lines 619-622: the DREQ phase is over *)
T_L619 ==
    /\ loc.pc = "L619"
    /\ req' = [req EXCEPT !.late = @ \/ MarksLate(loc.dreq_rt)]
    /\ loc' = [loc EXCEPT !.hres = NoPkt, !.pc = "L512"]
    /\ UNCHANGED <<attempts, am, amq, prequests, reserved, sent, responses,
                   saved, clock, delivered, dresWrites, call, ids>>

(* line 625 *)
T_L625 ==
    /\ loc.pc = "L625"
    /\ loc' = [loc EXCEPT !.hres = NoPkt, !.pc = "L483"]
    /\ UNCHANGED <<req, attempts, am, amq, prequests, reserved, sent,
                   responses, saved, clock, delivered, dresWrites, call, ids>>

(* line 629: if not req.dres_at *)
T_L629 ==
    /\ loc.pc = "L629"
    /\ loc' = [loc EXCEPT !.pc = IF req.dres_at = 0 THEN "L630" ELSE "L632"]
    /\ UNCHANGED <<req, attempts, am, amq, prequests, reserved, sent,
                   responses, saved, clock, delivered, dresWrites, call, ids>>

(* line 630 *)
T_L630 ==
    /\ loc.pc = "L630"
    /\ req' = [req EXCEPT !.state = FAIL]
    /\ loc' = [loc EXCEPT !.pc = "L632"]
    /\ UNCHANGED <<attempts, am, amq, prequests, reserved, sent, responses,
                   saved, clock, delivered, dresWrites, call, ids>>

(* lines 632-635: start _save; return req.result if req.dres_at, else None *)
T_L632 ==
    /\ loc.pc = "L632"
    /\ saved' = [saved EXCEPT !.st = "started"]
    /\ loc' = [loc EXCEPT !.ret = IF req.dres_at # 0 THEN req.result ELSE None,
                          !.pc = "done"]
    /\ UNCHANGED <<req, attempts, am, amq, prequests, reserved, sent,
                   responses, clock, delivered, dresWrites, call, ids>>

(* srp1, sr1 and sniff give up after PROTO_TIMEOUT *)
WaitPcs == {"srp1", "sr1_rreq", "sniff_rres", "sr1_dreq", "sniff_dres"}

T_Timeout ==
    /\ loc.pc \in WaitPcs
    /\ loc' = CASE loc.pc = "srp1" -> [loc EXCEPT !.hres = NoPkt, !.pc = "L500"]
                [] loc.pc = "sr1_rreq" -> [loc EXCEPT !.rres = NoPkt, !.pc = "L520"]
                [] loc.pc = "sniff_rres" -> [loc EXCEPT !.rres = NoPkt, !.pc = "L512"]
                [] loc.pc = "sr1_dreq" -> [loc EXCEPT !.dres = NoPkt, !.pc = "L566"]
                [] loc.pc = "sniff_dres" -> [loc EXCEPT !.dres = NoPkt, !.pc = "L556"]
    /\ UNCHANGED <<req, attempts, am, amq, prequests, reserved, sent,
                   responses, saved, clock, delivered, dresWrites, call, ids>>

(* _save, lines 638-644: the rows hold the fields as they are when the     *)
(* insert runs, some time after the return                                 *)
Save ==
    /\ saved.st = "started"
    /\ saved' = [st |-> "done", state |-> req.state, dres_at |-> req.dres_at,
                 result |-> req.result, host |-> req.host,
                 attempts |-> attempts]
    /\ UNCHANGED <<req, attempts, loc, am, amq, prequests, reserved, sent,
                   responses, clock, delivered, dresWrites, call, ids>>

----------------------------------------------------------------------------
(* Inbound packets.                                                        *)

(* what a peer may send the node, given what the node has sent.  The      *)
(* attempt_no of an HRES is read only for the _responses log (line 271),   *)
(* so the HRES of every attempt is written with the number of the latest.  *)
Inbound ==
    {Pkt(HRES, h, sent.hreq, 0, None) : h \in {x \in Hosts : sent.hreq > 0}}
    \cup {Pkt(st, h, 0, 0, None) : st \in {RRES, RCAN}, h \in sent.rreq}
    \cup {Pkt(DRES, d[1], d[2], 0, ResultOf(d[1])) : d \in sent.dreq}
    \cup {Pkt(st, d[1], 0, 0, None) : st \in {DWAIT, DCAN}, d \in sent.dreq}
    \cup {Pkt(HREQ, h, 1, c, None) : h \in Hosts, c \in CosIds}

(* MyProtocol.answers (lines 167-190) for the packet send_request waits    *)
(* on, and the lfilter of its two sniff calls (lines 527-533, 582-587);    *)
(* hashret is the req_id and source addresses are not checked by srp1/sr1  *)
(* (conf.checkIPaddr = False, line 198)                                    *)
Answers(pc, pkt) ==
    CASE pc = "srp1" -> pkt.state = HRES
      [] pc = "sr1_rreq" -> pkt.state \in {RRES, RCAN}
      [] pc = "sniff_rres" -> pkt.src = req.host /\ pkt.state \in {RRES, RCAN}
      [] pc = "sr1_dreq" -> pkt.state \in {DRES, DWAIT, DCAN}
      [] pc = "sniff_dres" -> pkt.src = req.host /\ pkt.state = DRES
      [] OTHER -> FALSE

(* the blocked call returns the packet *)
Received(pkt) ==
    CASE loc.pc = "srp1" -> [loc EXCEPT !.hres = pkt, !.pc = "L500"]
      [] loc.pc = "sr1_rreq" -> [loc EXCEPT !.rres = pkt, !.pc = "L520"]
      [] loc.pc = "sniff_rres" -> [loc EXCEPT !.rres = pkt, !.pc = "L541"]
      [] loc.pc = "sr1_dreq" -> [loc EXCEPT !.dres = pkt, !.pc = "L566"]
      [] loc.pc = "sniff_dres" -> [loc EXCEPT !.dres = pkt, !.pc = "L593"]

(* a packet reaches the node: the answering machine's sniffer queues it    *)
(* and a blocked srp1/sr1/sniff of send_request that it answers returns it *)
Deliver(max) ==
    /\ delivered < max
    /\ \E pkt \in Inbound :
        /\ am.alive => Len(amq) < MaxQueue
        /\ am.alive \/ Answers(loc.pc, pkt)
        /\ amq' = IF am.alive THEN Append(amq, pkt) ELSE amq
        /\ loc' = IF Answers(loc.pc, pkt) THEN Received(pkt) ELSE loc
    /\ delivered' = delivered + 1
    /\ UNCHANGED <<req, attempts, am, prequests, reserved, sent, responses,
                   saved, clock, dresWrites, call, ids>>

Arrive == Deliver(MaxPackets)

ArriveDeep == Deliver(DeepPackets)

----------------------------------------------------------------------------
(* The answering machine, MyProtocolAM.make_reply (lines 228-395).  Only   *)
(* packets of other hosts with a req_id are admitted (is_request, lines    *)
(* 214-226).  The request is in the registry `requests` from line 476 on.  *)

(* lines 214-226.  Every packet of the model has the three layers Ether,  *)
(* IP and MyProtocol and no other.                                         *)
is_request(pkt) ==
    /\ pkt.src # MY_IP
    /\ pkt.src # DEFAULT_IP
    /\ PyNe(pkt.req_id, Str(Empty))

(* line 232: _req_id = (ip_src, req_id) *)
Key(pkt) == <<pkt.src, Decode(pkt.req_id)>>

AmHas(st) ==
    /\ am.alive
    /\ am.pc = "idle"
    /\ amq # <<>>
    /\ is_request(Head(amq))
    /\ Head(amq).state = st

(* AnsweringMachine.reply: a packet that is not a request is dropped *)
AM_NotRequest ==
    /\ am.alive
    /\ am.pc = "idle"
    /\ amq # <<>>
    /\ ~is_request(Head(amq))
    /\ amq' = Tail(amq)
    /\ UNCHANGED <<req, attempts, loc, am, prequests, reserved, sent,
                   responses, saved, clock, delivered, dresWrites, call, ids>>

(* lines 250 and 255-257: cpu, ram and disk are the second, third and     *)
(* fourth item of what check_resources returned                            *)
Offers(v) == <<v[2], v[3], v[4]>>

(* line 250: check, cpu, ram, disk = check_resources(...).  The value is  *)
(* a single bool, which cannot be unpacked: TypeError.                     *)
UnpackRaises(v) == v \in BOOLEAN

(* the provider-side entry of a first HREQ (_Request.__init__, lines 79-82, *)
(* and line 240)                                                           *)
NewEntry ==
    [state |-> HREQ, cos |-> 0, result |-> None, thread |-> None,
     freed |-> TRUE]

(* an answering machine that offers itself without asking the ledger *)
HresWithoutCheck ==
    /\ AmHas(HREQ)
    /\ LET pkt == Head(amq) IN
       /\ prequests' = [h \in DOMAIN prequests \cup {Key(pkt)} |->
                          IF h = Key(pkt)
                          THEN [NewEntry EXCEPT !.cos = pkt.cos_id,
                                                !.state = HRES]
                          ELSE prequests[h]]
       /\ sent' = [sent EXCEPT !.hres = SendTo(@, pkt.src)]
    /\ amq' = Tail(amq)
    /\ UNCHANGED <<req, attempts, loc, am, reserved, responses, saved, clock,
                   delivered, dresWrites, call, ids>>

(* lines 236-262, HREQ of a peer.  A new entry is created in HREQ; for an  *)
(* entry in HREQ or HRES the CoS of the packet is bound to it (line 248)   *)
(* and check_resources is called.  A cos_id that is no key of cos_dict     *)
(* raises KeyError at line 248, after the entry was created; the          *)
(* TypeError of line 250 leaves                                            *)
(* make_reply and ends the sniffing thread of the answering machine: no    *)
(* HRES is sent and no later packet is handled.  Lines 251-260 are what    *)
(* follows an unpacking that does not raise.                               *)
AM_HREQ ==
    /\ AmHas(HREQ)
    /\ LET pkt == Head(amq)
           old == IF Key(pkt) \in DOMAIN prequests
                  THEN prequests[Key(pkt)] ELSE NewEntry
           admitted == old.state \in {HREQ, HRES}
           check == check_resources(reserved, pkt.cos_id)
           entry(st) == [old EXCEPT !.cos = pkt.cos_id, !.state = st]
           put(e) == [h \in DOMAIN prequests \cup {Key(pkt)} |->
                        IF h = Key(pkt) THEN e ELSE prequests[h]]
       IN
       IF ~admitted
       THEN /\ prequests' = put(old)
            /\ amq' = Tail(amq)
            /\ UNCHANGED <<am, sent, call>>
       ELSE IF pkt.cos_id \notin CosIds
       THEN /\ prequests' = put(old)
            /\ am' = [am EXCEPT !.alive = FALSE]
            /\ amq' = <<>>
            /\ UNCHANGED <<sent, call>>
       ELSE /\ call' = Call("check", pkt.cos_id, PyBool(check), reserved)
            /\ IF UnpackRaises(check)
               THEN /\ prequests' = put(entry(old.state))
                    /\ am' = [am EXCEPT !.alive = FALSE]
                    /\ amq' = <<>>
                    /\ UNCHANGED sent
               ELSE /\ prequests' = put(entry(IF check THEN HRES ELSE HREQ))
                    /\ sent' = IF check
                               THEN [sent EXCEPT !.hres = SendTo(@, pkt.src),
                                                 !.offer = Offers(check)]
                               ELSE sent
                    /\ amq' = Tail(amq)
                    /\ UNCHANGED am
    /\ UNCHANGED <<req, attempts, loc, reserved, responses, saved, clock,
                   delivered, dresWrites, ids>>

(* lines 265-275: an HRES for a request neither answered nor failed is     *)
(* logged in _responses                                                    *)
AM_HRES ==
    /\ AmHas(HRES)
    /\ responses' = (responses \/ req.state \notin {DRES, FAIL})
    /\ amq' = Tail(amq)
    /\ UNCHANGED <<req, attempts, loc, am, prequests, reserved, sent, saved,
                   clock, delivered, dresWrites, call, ids>>

(* lines 304-312: the reply to an RRES of host src when the request's     *)
(* host is host                                                            *)
NoReply(src, host) == None

RresReply(src, host) == IF src # host THEN RCAN ELSE None

(* lines 304-312: an RRES from a host that is not the current one is       *)
(* answered with RCAN                                                      *)
AM_RRES ==
    /\ AmHas(RRES)
    /\ sent' = IF RresReply(Head(amq).src, req.host) = RCAN
               THEN [sent EXCEPT !.rcan = SendTo(@, Head(amq).src)]
               ELSE sent
    /\ amq' = Tail(amq)
    /\ UNCHANGED <<req, attempts, loc, am, prequests, reserved, responses,
                   saved, clock, delivered, dresWrites, call, ids>>

(* lines 376-383: the reply to a DRES of host src when dres_at is set and  *)
(* the request's host is host                                              *)
AlwaysDack(src, host) == DACK

DresReply(src, host) == IF src # host THEN DCAN ELSE DACK

(* line 357: a DRES is accepted by the answering machine *)
AcceptsLate(pkt) == pkt.src # req.host /\ req.late

(* lines 353-357 and 371-384: DRES for a request of the registry.  With    *)
(* dres_at unset the packet is accepted (lines 358-369, the next two       *)
(* steps) or dropped; with dres_at set it is answered at once.             *)
AM_DRES ==
    /\ AmHas(DRES)
    /\ LET pkt == Head(amq) IN
       IF req.dres_at = 0
       THEN IF AcceptsLate(pkt)
            THEN /\ am' = [am EXCEPT !.pc = "L358"]
                 /\ UNCHANGED <<amq, sent>>
            ELSE /\ amq' = Tail(amq)
                 /\ UNCHANGED <<am, sent>>
       ELSE /\ sent' = IF DresReply(pkt.src, req.host) = DCAN
                       THEN [sent EXCEPT !.dcan = SendTo(@, pkt.src)]
                       ELSE [sent EXCEPT !.dack = SendDack(@, pkt.src)]
            /\ amq' = Tail(amq)
            /\ UNCHANGED am
    /\ UNCHANGED <<req, attempts, loc, prequests, reserved, responses, saved,
                   clock, delivered, dresWrites, call, ids>>

(* line 358: requests[req_id].dres_at = time() *)
AM_L358 ==
    /\ am.alive
    /\ am.pc = "L358"
    /\ req' = [req EXCEPT !.dres_at = Time]
    /\ clock' = Time
    /\ dresWrites' = dresWrites + 1
    /\ am' = [am EXCEPT !.pc = "L359"]
    /\ UNCHANGED <<attempts, loc, amq, prequests, reserved, sent, responses,
                   saved, delivered, call, ids>>

(* lines 359-369: state, host, result, the attempt named by the packet,    *)
(* and the DACK reply                                                      *)
AM_L359 ==
    /\ am.alive
    /\ am.pc = "L359"
    /\ LET pkt == Head(amq) IN
        /\ req' = [req EXCEPT !.state = DRES, !.host = pkt.src,
                              !.result = pkt.data]
        /\ attempts' = [attempts EXCEPT ![pkt.attempt_no].state = DRES,
                                        ![pkt.attempt_no].dres_at = req.dres_at]
        /\ sent' = [sent EXCEPT !.dack = SendDack(@, pkt.src)]
    /\ am' = [am EXCEPT !.pc = "idle"]
    /\ amq' = Tail(amq)
    /\ UNCHANGED <<loc, prequests, reserved, responses, saved, clock,
                   delivered, dresWrites, call, ids>>

(* RCAN, DWAIT and DCAN match no branch of make_reply: no reply *)
AM_Ignore ==
    /\ am.alive
    /\ am.pc = "idle"
    /\ amq # <<>>
    /\ is_request(Head(amq))
    /\ Head(amq).state \in {RCAN, DWAIT, DCAN}
    /\ amq' = Tail(amq)
    /\ UNCHANGED <<req, attempts, loc, am, prequests, reserved, sent,
                   responses, saved, clock, delivered, dresWrites, call, ids>>

----------------------------------------------------------------------------
Thread ==
    \/ T_L483 \/ T_L484 \/ T_L500 \/ T_L501 \/ T_L512 \/ T_L513 \/ T_L520
    \/ T_L541 \/ T_L556 \/ T_L557 \/ T_L566 \/ T_L593 \/ T_L601 \/ T_L615
    \/ T_L619 \/ T_L625 \/ T_L629 \/ T_L630 \/ T_L632 \/ T_Timeout

AnsweringMachine ==
    \/ AM_HREQ \/ AM_HRES \/ AM_RRES \/ AM_DRES \/ AM_L358 \/ AM_L359
    \/ AM_Ignore

Next == Thread \/ AnsweringMachine \/ Arrive \/ Save

Spec == Init /\ [][Next]_vars

(* the same node with more packets and at most DeepAttempts attempts *)
ThreadDeep == Thread /\ (loc.pc = "L484" => req.attempt_no < DeepAttempts)

NextDeep == ThreadDeep \/ AnsweringMachine \/ ArriveDeep \/ Save

SpecDeep == Init /\ [][NextDeep]_vars

----------------------------------------------------------------------------
(* C3: for every consumer request, dres_at is written at most once and,    *)
(* once set, never changes, under every interleaving of send_request and   *)
(* the answering machine.                                                  *)
C3_DresAtWrittenOnce ==
    [][/\ dresWrites' <= 1
       /\ req.dres_at # 0 => req'.dres_at = req.dres_at]_vars

(* C4: at most one Attempt of the request ever reaches state DRES.         *)
DresAttempts == {i \in DOMAIN attempts : attempts[i].state = DRES}

C4_OneAttemptInDres == Cardinality(DresAttempts) <= 1

(* C10: the answering machine accepts a DRES of a foreign host (sets       *)
(* dres_at, host, result and the attempt state, replies DACK) if and only  *)
(* if dres_at is unset and the request has been marked late.               *)
AmAcceptStep == am.pc = "L358" /\ am'.pc = "L359"

AmRejectStep ==
    /\ AmHas(DRES)
    /\ Head(amq).src # req.host
    /\ am'.pc = "idle"
    /\ amq' = Tail(amq)

C10_AcceptIffUnsetAndLate ==
    [][/\ AmAcceptStep => (req.dres_at = 0 /\ req.late)
       /\ AmRejectStep => ~(req.dres_at = 0 /\ req.late)]_vars

(* C5: a call of send_request creates at most PROTOCOL_RETRIES Attempt     *)
(* records and broadcasts at most PROTOCOL_RETRIES HREQ packets, whatever  *)
(* replies arrive.                                                         *)
C5_AtMostRetriesAttempts ==
    /\ Len(attempts) <= PROTO_RETRIES
    /\ sent.hreq <= PROTO_RETRIES

(* C7: when send_request returns no result, the request is in state FAIL   *)
(* and its dres_at is unset; when it returns a result, dres_at is set and  *)
(* the value returned is the request's result field.                       *)
Returns == loc.pc # "done" /\ loc'.pc = "done"

C7_ReturnValue ==
    [][Returns =>
         IF loc'.ret = None
         THEN req'.state = FAIL /\ req'.dres_at = 0
         ELSE req'.dres_at # 0 /\ loc'.ret = req'.result]_vars

(* C8: a request whose dres_at became set at any point, also by a late     *)
(* DRES accepted while send_request runs or after it has returned, is      *)
(* persisted with state DRES.                                              *)
Accepted == req.dres_at # 0 /\ am.pc # "L359"

C8_PersistedAsDres == (saved.st = "done" /\ Accepted) => saved.state = DRES

(* C9: for a request that completes in DRES exactly one DACK is emitted    *)
(* by the node over the whole run, counting the DACK of send_request and   *)
(* the DACK replies of the answering machine.                              *)
RECURSIVE Sum(_, _)
Sum(f, S) ==
    IF S = {} THEN 0
    ELSE LET x == CHOOSE y \in S : TRUE IN f[x] + Sum(f, S \ {x})

TotalDacks == Sum(sent.dack, Hosts)

C9_ExactlyOneDack ==
    /\ TotalDacks <= 1
    /\ Accepted => TotalDacks = 1

(* C9, as the code has it: a request that completes in DRES is             *)
(* acknowledged at least once, every DACK follows an accepted DRES, and    *)
(* the answering machine acknowledges again each DRES that the chosen host *)
(* sends after the acceptance.                                             *)
C9_AtLeastOneDack ==
    /\ Accepted => TotalDacks >= 1
    /\ TotalDacks > 0 => dresWrites > 0

C9_RepeatedDack == Accepted /\ loc.pc = "done" /\ TotalDacks = 2

----------------------------------------------------------------------------
(* The run without a bound on the packets that arrive.  The attempt        *)
(* number, the Attempt records, the clock and the record of what was sent  *)
(* grow with every outer attempt, but send_request reads none of them: its *)
(* loops test the three budgets, the packets received and req.dres_at      *)
(* only.  SpecLive folds them at line 484: every outer attempt is          *)
(* recorded as the first one, and the peers answer what was sent since.    *)
(* A cycle of SpecLive is an unbounded run of send_request.                *)
T_L484Live ==
    /\ loc.pc = "L484"
    /\ req' = [req EXCEPT !.host = None, !.state = HREQ, !.attempt_no = 1,
                          !.hreq_at = 1]
    /\ attempts' = <<[NewAttempt EXCEPT !.attempt_no = 1, !.state = HREQ,
                                        !.hreq_at = 1]>>
    /\ clock' = 1
    /\ loc' = [loc EXCEPT !.attempt = 1, !.hreq_rt = @ - 1, !.pc = "srp1"]
    /\ sent' = [sent EXCEPT !.hreq = 1, !.rreq = {}, !.dreq = {},
                            !.rcan = [h \in Hosts |-> 0]]
    /\ delivered' = 0
    /\ UNCHANGED <<am, amq, prequests, reserved, responses, saved,
                   dresWrites, call, ids>>

ThreadLive ==
    \/ T_L484Live
    \/ (loc.pc # "L484" /\ Thread)

ArriveLive == Deliver(LivePackets)

NextLive == ThreadLive \/ AnsweringMachine \/ ArriveLive \/ Save

(* both threads of the process are scheduled again and again, and every    *)
(* srp1, sr1 and sniff ends at its timeout; the peers owe nothing          *)
SpecLive ==
    /\ Init
    /\ [][NextLive]_vars
    /\ WF_vars(ThreadLive)
    /\ WF_vars(AnsweringMachine)
    /\ WF_vars(Save)

(* C6: every call of send_request eventually returns, with a result or     *)
(* with failure, when both threads are scheduled fairly and every wait     *)
(* ends at its timeout: no sequence of provider replies keeps the          *)
(* consumer retrying forever.                                              *)
C6_EventuallyReturns == <>(loc.pc = "done")

----------------------------------------------------------------------------
(* C11: once dres_at is set, the answering machine answers a DRES of a     *)
(* host other than the recorded host with DCAN and a DRES of the recorded  *)
(* host with DACK, and neither changes the request's host, result or       *)
(* dres_at.                                                                *)
AmRepeatedDresStep ==
    /\ AmHas(DRES)
    /\ req.dres_at # 0
    /\ amq' = Tail(amq)

C11_RepeatedDresReply ==
    [][AmRepeatedDresStep =>
         LET src == Head(amq).src IN
         /\ req' = req
         /\ attempts' = attempts
         /\ sent'.rcan = sent.rcan
         /\ IF src # req.host
            THEN /\ sent'.dcan = [sent.dcan EXCEPT ![src] = @ + 1]
                 /\ sent'.dack = sent.dack
            ELSE /\ sent'.dack = [sent.dack EXCEPT ![src] = @ + 1]
                 /\ sent'.dcan = sent.dcan]_vars

C11_DcanSent ==
    /\ \E h \in Hosts : sent.dcan[h] > 0 /\ h # req.host
    /\ req.dres_at # 0

(* C12: an RRES for the request from an address other than the request's   *)
(* current host is answered with RCAN to the sender, in every phase of the *)
(* request, and changes nothing in the request.                            *)
AmRresStep ==
    /\ AmHas(RRES)
    /\ amq' = Tail(amq)

C12_ForeignRresCancelled ==
    [][AmRresStep =>
         LET src == Head(amq).src IN
         /\ req' = req
         /\ attempts' = attempts
         /\ sent'.dcan = sent.dcan /\ sent'.dack = sent.dack
         /\ sent'.rcan = IF src # req.host
                         THEN [sent.rcan EXCEPT ![src] = @ + 1]
                         ELSE sent.rcan]_vars

C12_RcanSent == \E h \in Hosts : sent.rcan[h] > 0

(* C13: an HREQ received when the available resources do not satisfy the   *)
(* CoS produces no reply: no HRES is sent, the provider entry is in HREQ   *)
(* afterwards and the ledger is unchanged.                                 *)
AmHreqStep ==
    /\ AmHas(HREQ)
    /\ Len(amq') < Len(amq)

C13_InsufficientNoReply ==
    [][(AmHreqStep /\ ~check_resources(reserved, Head(amq).cos_id)) =>
         /\ sent' = sent
         /\ prequests'[Key(Head(amq))].state = HREQ
         /\ reserved' = reserved]_vars

C13_InsufficientHreqHandled ==
    /\ call.op = "check"
    /\ call.ret = "False"
    /\ \E h \in DOMAIN prequests :
          prequests[h].state = HREQ /\ ~check_resources(reserved, prequests[h].cos)

----------------------------------------------------------------------------
(* The ledger alone: check_resources, reserve_resources and free_resources *)
(* called in any order, for the requests of every CoS, from every ledger   *)
(* within the capacity of the host.                                        *)
Ledgers ==
    {<<c, r, d>> : c \in 0..Capacity[1], r \in 0..Capacity[2],
                   d \in 0..Capacity[3]}

InitLedger ==
    /\ req = NewRequest
    /\ attempts = <<>>
    /\ loc = [pc |-> "L483", hreq_rt |-> PROTO_RETRIES, rreq_rt |-> 0,
              dreq_rt |-> 0, hres |-> NoPkt, rres |-> NoPkt, dres |-> NoPkt,
              attempt |-> 0, ret |-> None]
    /\ am = [alive |-> TRUE, pc |-> "idle"]
    /\ amq = <<>>
    /\ prequests = [h \in {} |-> None]
    /\ reserved \in Ledgers
    /\ sent = [hreq |-> 0, rreq |-> {}, dreq |-> {},
               hres |-> [h \in Hosts |-> 0], offer |-> None,
               rcan |-> [h \in Hosts |-> 0],
               dcan |-> [h \in Hosts |-> 0], dack |-> [h \in Hosts |-> 0]]
    /\ responses = FALSE
    /\ saved = [st |-> "idle", state |-> None, dres_at |-> 0, result |-> None,
                host |-> None, attempts |-> <<>>]
    /\ clock = 0
    /\ delivered = 0
    /\ dresWrites = 0
    /\ call = NoCall
    /\ requests = {Placeholder, ReqId}
    /\ callers = NoCallers
    /\ codec = NoCodec
    /\ db = NoDb

LedgerCheck ==
    /\ \E cos \in CosIds :
         call' = Call("check", cos, PyBool(check_resources(reserved, cos)),
                      reserved)
    /\ UNCHANGED <<req, attempts, loc, am, amq, prequests, reserved, sent,
                   responses, saved, clock, delivered, dresWrites, ids>>

LedgerReserve ==
    /\ \E cos \in CosIds :
         LET r == reserve_resources(reserved, cos) IN
         /\ reserved' = r.reserved
         /\ call' = Call("reserve", cos, r.ret, reserved)
    /\ UNCHANGED <<req, attempts, loc, am, amq, prequests, sent, responses,
                   saved, clock, delivered, dresWrites, ids>>

LedgerFree ==
    /\ \E cos \in CosIds :
         LET r == free_resources(reserved, cos) IN
         /\ reserved' = r.reserved
         /\ call' = Call("free", cos, r.ret, reserved)
    /\ UNCHANGED <<req, attempts, loc, am, amq, prequests, sent, responses,
                   saved, clock, delivered, dresWrites, ids>>

NextLedger == LedgerCheck \/ LedgerReserve \/ LedgerFree

SpecLedger == InitLedger /\ [][NextLedger]_vars

(* C14: check_resources(r) is true if and only if a reserve_resources(r)   *)
(* executed next succeeds; a successful reserve adds exactly r to the      *)
(* reserved counters and a failed reserve leaves them unchanged.           *)
C14_CheckIffReserve ==
    [][call'.op = "reserve" =>
         LET ok == check_resources(reserved, call'.cos) IN
         /\ (call'.ret = "True") <=> ok
         /\ ok => reserved' = [i \in 1..3 |->
                                 reserved[i] + MinReq(call'.cos)[i]]
         /\ ~ok => reserved' = reserved]_vars

(* C15: every reserved counter of the ledger is greater than or equal to   *)
(* zero after any sequence of reserve and free operations, frees with no   *)
(* matching reserve included.                                              *)
C15_CountersNotNegative == \A i \in 1..3 : reserved[i] >= 0

C15_FreeClamped ==
    /\ call.op = "free"
    /\ \E i \in 1..3 :
          /\ call.before[i] < MinReq(call.cos)[i]
          /\ reserved[i] = 0

(* C18: the attempt numbers of a request are exactly 1..n: new_attempt     *)
(* gives every new Attempt the number of the previous one plus one,        *)
(* starting from 1, and files it under that number.                        *)
C18_AttemptNumbersDense ==
    /\ req.attempt_no = Len(attempts)
    /\ \A i \in DOMAIN attempts : attempts[i].attempt_no = i

C18_ThreeAttempts ==
    /\ Len(attempts) = 3
    /\ attempts[3].attempt_no = 3
    /\ req.attempt_no = 3

(* C17: at every moment at most one Attempt of the request is in a         *)
(* non-terminal state (HREQ, RREQ or DREQ): when a new Attempt is created, *)
(* every earlier Attempt is in a terminal state (DRES, RCAN or DCAN).      *)
NonTerminal == {HREQ, RREQ, DREQ}

C17_OneNonTerminalAttempt ==
    Cardinality({i \in DOMAIN attempts : attempts[i].state \in NonTerminal})
        <= 1

(* C17, amended: send_request advances only the newest Attempt of the      *)
(* request.  An earlier Attempt keeps the state in which it was abandoned, *)
(* non-terminal after a timeout, and changes only to DRES, when the        *)
(* answering machine accepts a late DRES for it.                           *)
C17_OnlyNewestAdvances ==
    [][\A i \in DOMAIN attempts :
         /\ i \in DOMAIN attempts'
         /\ attempts'[i] # attempts[i]
              => (i = Len(attempts) \/ attempts'[i].state = DRES)]_vars

C17_AbandonedStaysNonTerminal ==
    /\ Len(attempts) >= 2
    /\ attempts[1].state \in NonTerminal
    /\ attempts[Len(attempts)].state = DREQ

----------------------------------------------------------------------------
(* Lines 460-476 alone: calls of send_request, in threads of one process,  *)
(* each generating an id and registering its Request under it.  The        *)
(* registry starts with the placeholder and the ids read from the          *)
(* database.  No lock is taken: the membership test of line 462 and the    *)
(* insertion of line 476 are separate steps of a call.                     *)
InitIds ==
    /\ req = NewRequest
    /\ attempts = <<>>
    /\ loc = [pc |-> "L483", hreq_rt |-> PROTO_RETRIES, rreq_rt |-> 0,
              dreq_rt |-> 0, hres |-> NoPkt, rres |-> NoPkt, dres |-> NoPkt,
              attempt |-> 0, ret |-> None]
    /\ am = [alive |-> TRUE, pc |-> "idle"]
    /\ amq = <<>>
    /\ prequests = [h \in {} |-> None]
    /\ reserved = <<0, 0, 0>>
    /\ sent = [hreq |-> 0, rreq |-> {}, dreq |-> {},
               hres |-> [h \in Hosts |-> 0], offer |-> None,
               rcan |-> [h \in Hosts |-> 0],
               dcan |-> [h \in Hosts |-> 0], dack |-> [h \in Hosts |-> 0]]
    /\ responses = FALSE
    /\ saved = [st |-> "idle", state |-> None, dres_at |-> 0, result |-> None,
                host |-> None, attempts |-> <<>>]
    /\ clock = 0
    /\ delivered = 0
    /\ dresWrites = 0
    /\ call = NoCall
    /\ \E seeded \in SUBSET Ids : requests = {Placeholder} \cup seeded
    /\ callers = [c \in Callers |-> [pc |-> "L461", id |-> Placeholder]]
    /\ codec = NoCodec
    /\ db = NoDb

IdsRest ==
    <<req, attempts, loc, am, amq, prequests, reserved, sent, responses,
      saved, clock, delivered, dresWrites, call, codec, db>>

(* line 461: id = '_' *)
G_L461(c) ==
    /\ callers[c].pc = "L461"
    /\ callers' = [callers EXCEPT ![c] = [pc |-> "L462", id |-> Placeholder]]
    /\ UNCHANGED <<requests, IdsRest>>

(* line 462: while id in requests; line 465 returns the id *)
G_L462(c) ==
    /\ callers[c].pc = "L462"
    /\ callers' = [callers EXCEPT ![c].pc = IF callers[c].id \in requests
                                            THEN "L463" ELSE "L476"]
    /\ UNCHANGED <<requests, IdsRest>>

(* lines 463-464: ten random characters *)
G_L463(c) ==
    /\ callers[c].pc = "L463"
    /\ \E id \in Ids : callers' = [callers EXCEPT ![c] = [pc |-> "L462",
                                                           id |-> id]]
    /\ UNCHANGED <<requests, IdsRest>>

(* lines 475-476: requests[req_id] = req *)
G_L476(c) ==
    /\ callers[c].pc = "L476"
    /\ requests' = requests \cup {callers[c].id}
    /\ callers' = [callers EXCEPT ![c].pc = "L478"]
    /\ UNCHANGED IdsRest

NextIds ==
    \E c \in Callers : G_L461(c) \/ G_L462(c) \/ G_L463(c) \/ G_L476(c)

SpecIds == InitIds /\ [][NextIds]_vars

(* C19: request ids are unique on the node: no two calls of send_request,  *)
(* concurrent calls included, obtain the same req_id, and no call obtains  *)
(* an id that is already in the registry, live or read from the database:  *)
(* every id is new to the registry when line 476 registers it.             *)
C19_RegisteredIdIsNew ==
    [][\A c \in Callers :
         (callers[c].pc = "L476" /\ callers'[c].pc = "L478")
            => callers[c].id \notin requests]_vars

----------------------------------------------------------------------------
(* The run with the packets that is_request is there to refuse: the        *)
(* node's own HREQ broadcast coming back under one of its addresses, and   *)
(* packets of a peer that carry nothing after the state byte, whose req_id *)
(* is dissected as the empty bytes and whose other fields take their       *)
(* defaults (attempt_no 1, cos_id 0).                                      *)
NoId(pkt) == [pkt EXCEPT !.req_id = Bytes(Empty)]

InboundAdmit ==
    {Pkt(HREQ, a, sent.hreq, c, None) :
        a \in {x \in {MY_IP, DEFAULT_IP} : sent.hreq > 0}, c \in CosIds}
    \cup {NoId(Pkt(st, h, 1, 0, None)) : st \in {HREQ, RCAN}, h \in Hosts}

ArriveAdmit ==
    /\ delivered < MaxPackets
    /\ am.alive
    /\ Len(amq) < MaxQueue
    /\ \E pkt \in InboundAdmit : amq' = Append(amq, pkt)
    /\ delivered' = delivered + 1
    /\ UNCHANGED <<req, attempts, loc, am, prequests, reserved, sent,
                   responses, saved, clock, dresWrites, call, ids>>

NextAdmit == Next \/ ArriveAdmit \/ AM_NotRequest

SpecAdmit == Init /\ [][NextAdmit]_vars

(* C20: the node never answers its own packets: a packet whose source is   *)
(* one of the node's own addresses, or whose req_id is empty, is dropped   *)
(* by the answering machine with no reply and no change of the registries  *)
(* or the ledger, whatever resources the node has.                         *)
AmTakes ==
    /\ am.alive
    /\ am.pc = "idle"
    /\ amq # <<>>
    /\ Len(amq') < Len(amq)

NoHresReceived ==
    /\ ~responses
    /\ \A i \in DOMAIN attempts : attempts[i].hres_at = 0
    /\ \A i \in DOMAIN amq : amq[i].state # HRES

C21_NoHostFails ==
    (loc.pc = "done" /\ NoHresReceived)
        => /\ Len(attempts) = PROTO_RETRIES
           /\ sent.hreq = PROTO_RETRIES
           /\ req.state = FAIL
           /\ req.result = None
           /\ loc.ret = None
           /\ TotalDacks = 0

C21_FailedWithoutHost ==
    /\ loc.pc = "done"
    /\ NoHresReceived
    /\ req.state = FAIL
    /\ Len(attempts) = PROTO_RETRIES

(* C23: the HRES sent in reply to an HREQ carries cpu_offer, ram_offer and *)
(* disk_offer equal to the capacity of the node minus the amounts reserved *)
(* at the time of the check.                                               *)
AmHreqSufficient ==
    /\ AmHreqStep
    /\ Head(amq).cos_id \in CosIds
    /\ Key(Head(amq)) \in DOMAIN prequests
          => prequests[Key(Head(amq))].state \in {HREQ, HRES}
    /\ check_resources(reserved, Head(amq).cos_id)

C23_HresCarriesOffers ==
    [][AmHreqSufficient =>
         /\ sent'.hres = SendTo(sent.hres, Head(amq).src)
         /\ sent'.offer = get_resources(reserved)]_vars

----------------------------------------------------------------------------
(* Two nodes that run this program and lose no packet: a consumer at the   *)
(* address of peer B, whose send_request is the task above, and a provider *)
(* whose answering machine, registry and ledger are am, amq, prequests and *)
(* reserved.  Every HREQ broadcast reaches the provider, and a wait of     *)
(* send_request times out only when the provider has handled everything   *)
(* that was sent to it.  The request is of the CoS that the provider can   *)
(* satisfy, whatever the provider holds for other requests.                *)
PairCos == 1

InitPair ==
    /\ req = NewRequest
    /\ attempts = <<>>
    /\ loc = [pc |-> "L483", hreq_rt |-> HreqBudget, rreq_rt |-> 0,
              dreq_rt |-> 0, hres |-> NoPkt, rres |-> NoPkt, dres |-> NoPkt,
              attempt |-> 0, ret |-> None]
    /\ am = [alive |-> TRUE, pc |-> "idle"]
    /\ amq = <<>>
    /\ prequests = [h \in {} |-> None]
    /\ reserved \in {l \in Ledgers : check_resources(l, PairCos)}
    /\ sent = [hreq |-> 0, rreq |-> {}, dreq |-> {},
               hres |-> [h \in Hosts |-> 0], offer |-> None,
               rcan |-> [h \in Hosts |-> 0],
               dcan |-> [h \in Hosts |-> 0], dack |-> [h \in Hosts |-> 0]]
    /\ responses = FALSE
    /\ saved = [st |-> "idle", state |-> None, dres_at |-> 0, result |-> None,
                host |-> None, attempts |-> <<>>]
    /\ clock = 0
    /\ delivered = 0
    /\ dresWrites = 0
    /\ call = NoCall
    /\ requests = {Placeholder, ReqId}
    /\ callers = NoCallers
    /\ codec = NoCodec
    /\ db = NoDb

PairQuiet == delivered = sent.hreq /\ (amq = <<>> \/ ~am.alive)

PairDeliver ==
    /\ delivered < sent.hreq
    /\ amq' = IF am.alive
              THEN Append(amq, Pkt(HREQ, "B", delivered + 1, PairCos, None))
              ELSE amq
    /\ delivered' = delivered + 1
    /\ UNCHANGED <<req, attempts, loc, am, prequests, reserved, sent,
                   responses, saved, clock, dresWrites, call, ids>>

PairConsumer == Thread /\ (loc.pc \in WaitPcs => PairQuiet)

PairProvider == am.alive /\ AnsweringMachine

NextPair == PairConsumer \/ PairDeliver \/ PairProvider \/ Save

SpecPair == InitPair /\ [][NextPair]_vars

(* C22: with one provider that has sufficient resources and no message     *)
(* loss, the request completes in state DRES with the provider's result,   *)
(* with exactly one Attempt, of number 1, whose four timestamps are set,   *)
(* and the provider's ledger is back to (0,0,0): stated for the provider  *)
(* whose ledger was empty when it checked the request.                     *)
C22_CompletesWithOneProvider ==
    (loc.pc = "done" /\ call.op = "check" /\ call.before = <<0, 0, 0>>)
        => /\ req.state = DRES
           /\ req.result # None
           /\ loc.ret = req.result
           /\ Len(attempts) = 1
           /\ attempts[1].attempt_no = 1
           /\ attempts[1].hreq_at # 0
           /\ attempts[1].hres_at # 0
           /\ attempts[1].rres_at # 0
           /\ attempts[1].dres_at # 0
           /\ reserved = <<0, 0, 0>>


----------------------------------------------------------------------------
(* The wire codec: MyProtocol.fields_desc (protocol.py 141-157), built and *)
(* dissected field by field in the order of the list.  Bytes are numbers   *)
(* 0..255 and a string field is the sequence of its bytes.                 *)

(* consts.py line 31 *)
REQ_ID_LEN == 10

(* consts.py lines 2-11: the numbers of the protocol states *)
StateNo(st) ==
    CASE st = HREQ -> 1 [] st = HRES -> 2 [] st = RREQ -> 3 [] st = RRES -> 4
      [] st = RCAN -> 5 [] st = DREQ -> 6 [] st = DRES -> 7 [] st = DACK -> 8
      [] st = DCAN -> 9 [] st = DWAIT -> 10

PacketStates == {HREQ, HRES, RREQ, RRES, RCAN, DREQ, DRES, DACK, DCAN, DWAIT}

(* the state a byte stands for; a byte outside _states stays a number *)
StateOf(b) ==
    IF \E st \in PacketStates : StateNo(st) = b
    THEN CHOOSE st \in PacketStates : StateNo(st) = b
    ELSE b

(* the conditions of the ConditionalFields, lines 144-156 *)
HasAttemptNo(st) == st \in {HREQ, HRES, DREQ, DRES}

HasCosId(st) == st = HREQ

HasData(st) == st \in {DREQ, DRES}

HasOffers(st) == st = HRES

(* s[:n] and s[n:] of Python *)
Take(s, n) == SubSeq(s, 1, IF n < Len(s) THEN n ELSE Len(s))

Drop(s, n) == SubSeq(s, (IF n < Len(s) THEN n ELSE Len(s)) + 1, Len(s))

(* a two-byte field in the place of the four-byte one *)
ShortIntBytes(n) == <<(n \div 256) % 256, n % 256>>

(* IntField and IntEnumField: four bytes, network order *)
IntBytes(n) ==
    <<(n \div 16777216) % 256, (n \div 65536) % 256, (n \div 256) % 256,
      n % 256>>

IntValue(b) == ((b[1] * 256 + b[2]) * 256 + b[3]) * 256 + b[4]

(* IEEEDoubleField: the eight bytes of the binary64 value, network order,  *)
(* for the whole values the model offers                                   *)
Doubles == 0..2

DoubleBytes(x) ==
    CASE x = 0 -> <<0, 0, 0, 0, 0, 0, 0, 0>>
      [] x = 1 -> <<63, 240, 0, 0, 0, 0, 0, 0>>
      [] x = 2 -> <<64, 0, 0, 0, 0, 0, 0, 0>>

(* a double the model has no name for *)
OtherDouble == 0 - 2

DoubleValue(b) ==
    IF \E x \in Doubles : DoubleBytes(x) = b
    THEN CHOOSE x \in Doubles : DoubleBytes(x) = b
    ELSE OtherDouble

(* the request ids, attempt numbers, classes and payloads of the packets   *)
(* the model builds: ids are REQ_ID_LEN letters and digits (lines 463-464) *)
CodecIds ==
    {[i \in 1..REQ_ID_LEN |-> 97],
     [i \in 1..REQ_ID_LEN |-> IF i % 2 = 0 THEN 48 ELSE 90]}

CodecNos == {1, 2, 300}

CodecCos == {0, 1, 2}

CodecData == {<<>>, <<100>>, <<0, 0, 0, 1>>}

(* a field whose condition is false is not part of the packet *)
NoInt == 0 - 1

NoData == <<NoInt>>

Packet(st, id, no, cos, data, cpu, ram, disk) ==
    [state |-> st, req_id |-> id,
     attempt_no |-> IF HasAttemptNo(st) THEN no ELSE NoInt,
     cos_id |-> IF HasCosId(st) THEN cos ELSE NoInt,
     data |-> IF HasData(st) THEN data ELSE NoData,
     cpu_offer |-> IF HasOffers(st) THEN cpu ELSE NoInt,
     ram_offer |-> IF HasOffers(st) THEN ram ELSE NoInt,
     disk_offer |-> IF HasOffers(st) THEN disk ELSE NoInt]

Packets ==
    {Packet(st, id, no, cos, data, cpu, ram, disk) :
        st \in PacketStates, id \in CodecIds, no \in CodecNos,
        cos \in CodecCos, data \in CodecData, cpu \in Doubles,
        ram \in Doubles, disk \in Doubles}

(* Packet.do_build: the fields of fields_desc in order, each one added     *)
(* when its condition holds; req_id is written as it is                    *)
Build(p) ==
    <<StateNo(p.state)>> \o p.req_id
        \o (IF HasAttemptNo(p.state) THEN IntBytes(p.attempt_no) ELSE <<>>)
        \o (IF HasCosId(p.state) THEN IntBytes(p.cos_id) ELSE <<>>)
        \o (IF HasData(p.state) THEN p.data ELSE <<>>)
        \o (IF HasOffers(p.state)
            THEN IntBytes(p.cpu_offer) \o DoubleBytes(p.ram_offer)
                     \o DoubleBytes(p.disk_offer)
            ELSE <<>>)

(* what IP's payload becomes when the bytes do not dissect as MyProtocol *)
Raw == [state |-> "Raw"]

(* Packet.do_dissect: state takes one byte, req_id the next REQ_ID_LEN     *)
(* bytes (StrLenField, length_from), an IntField four bytes, a double      *)
(* eight, and data (StrField) all the bytes that are left.  A field of     *)
(* fixed width that finds fewer bytes than its width fails to unpack.      *)
Dissect(s) ==
    IF Len(s) < 1 THEN Raw
    ELSE
    LET st == StateOf(s[1])
        s1 == Drop(s, 1)
        id == Take(s1, REQ_ID_LEN)
        s2 == Drop(s1, REQ_ID_LEN)
        noW == IF HasAttemptNo(st) THEN 4 ELSE 0
        s3 == Drop(s2, noW)
        cosW == IF HasCosId(st) THEN 4 ELSE 0
        s4 == Drop(s3, cosW)
        s5 == IF HasData(st) THEN <<>> ELSE s4
        offW == IF HasOffers(st) THEN 20 ELSE 0
    IN  IF Len(s2) < noW \/ Len(s3) < cosW \/ Len(s5) < offW THEN Raw
        ELSE [state |-> st, req_id |-> id,
              attempt_no |-> IF HasAttemptNo(st) THEN IntValue(Take(s2, 4))
                                                 ELSE NoInt,
              cos_id |-> IF HasCosId(st) THEN IntValue(Take(s3, 4)) ELSE NoInt,
              data |-> IF HasData(st) THEN s4 ELSE NoData,
              cpu_offer |-> IF HasOffers(st) THEN IntValue(Take(s5, 4))
                                             ELSE NoInt,
              ram_offer |-> IF HasOffers(st)
                            THEN DoubleValue(SubSeq(s5, 5, 12)) ELSE NoInt,
              disk_offer |-> IF HasOffers(st)
                             THEN DoubleValue(SubSeq(s5, 13, 20)) ELSE NoInt]

(* the other variables of the module, which the codec does not touch *)
CodecRest ==
    <<req, attempts, loc, am, amq, prequests, reserved, sent, responses,
      saved, clock, delivered, dresWrites, call, requests, callers, db>>

(* the request protocol before send_request has taken a step *)
ProtocolIdle ==
    /\ req = NewRequest
    /\ attempts = <<>>
    /\ loc = [pc |-> "L483", hreq_rt |-> HreqBudget, rreq_rt |-> 0,
              dreq_rt |-> 0, hres |-> NoPkt, rres |-> NoPkt, dres |-> NoPkt,
              attempt |-> 0, ret |-> None]
    /\ am = [alive |-> TRUE, pc |-> "idle"]
    /\ amq = <<>>
    /\ prequests = [h \in {} |-> None]
    /\ reserved = <<0, 0, 0>>
    /\ sent = [hreq |-> 0, rreq |-> {}, dreq |-> {},
               hres |-> [h \in Hosts |-> 0], offer |-> None,
               rcan |-> [h \in Hosts |-> 0],
               dcan |-> [h \in Hosts |-> 0], dack |-> [h \in Hosts |-> 0]]
    /\ responses = FALSE
    /\ saved = [st |-> "idle", state |-> None, dres_at |-> 0, result |-> None,
                host |-> None, attempts |-> <<>>]
    /\ clock = 0
    /\ delivered = 0
    /\ dresWrites = 0
    /\ call = NoCall
    /\ requests = {Placeholder, ReqId}
    /\ callers = NoCallers

InitCodec ==
    /\ ProtocolIdle
    /\ db = NoDb
    /\ \E p \in Packets : codec = [pc |-> "made", pkt |-> p, wire |-> <<>>,
                                   out |-> Raw]

(* raw(pkt): the bytes that go on the wire *)
C_Build ==
    /\ codec.pc = "made"
    /\ codec' = [codec EXCEPT !.pc = "built", !.wire = Build(codec.pkt)]
    /\ UNCHANGED CodecRest

(* MyProtocol(bytes): the packet the receiver dissects *)
C_Dissect ==
    /\ codec.pc = "built"
    /\ codec' = [codec EXCEPT !.pc = "dissected", !.out = Dissect(codec.wire)]
    /\ UNCHANGED CodecRest

NextCodec == C_Build \/ C_Dissect

SpecCodec == InitCodec /\ [][NextCodec]_vars

(* C24: encoding a protocol packet and decoding the bytes gives back the   *)
(* same fields: state and req_id always; attempt_no and cos_id for HREQ;   *)
(* attempt_no and the three offers for HRES; attempt_no and data for DREQ  *)
(* and DRES; no conditional field for RREQ, RRES, RCAN, DACK, DCAN, DWAIT. *)
C24_RoundTrip ==
    codec.pc = "dissected" => codec.out = codec.pkt

(* an HRES with a multi-byte attempt number and non-zero offers has gone  *)
(* through the codec and came out as an HRES                               *)
C24_HresDissected ==
    /\ codec.pc = "dissected"
    /\ codec.pkt.state = HRES
    /\ codec.pkt.attempt_no = 300
    /\ codec.pkt.ram_offer = 1
    /\ codec.pkt.disk_offer = 2
    /\ codec.out.state = HRES


----------------------------------------------------------------------------
(* dblib: insert, update and select put a statement with a fresh Event on  *)
(* _queue and wait for the Event; the one thread started at line 292 runs  *)
(* _execute, which takes the statements off the queue and executes them on *)
(* the connection.  The table is the set of keys of its rows.  Whether     *)
(* sqlite executes a statement or raises is the database's answer.         *)

MaxOps == 2         \* calls of insert, update or select by one task

DbTasks == 1..2

DbKeys == 1..2

NoStmt == [sql |-> "none", key |-> 0, event |-> 0]

NoRet == [ok |-> FALSE, rows |-> {}]

(* one entry of rows for every select *)
SharedRows(event) == 0

(* the key under which _execute stores the rows of a select: the Event of  *)
(* the statement (line 283)                                                *)
RowsKey(event) == event

DbRest ==
    <<req, attempts, loc, am, amq, prequests, reserved, sent, responses,
      saved, clock, delivered, dresWrites, call, requests, callers, codec>>

InitDb ==
    /\ ProtocolIdle
    /\ codec = NoCodec
    /\ \E t0 \in SUBSET DbKeys :
         db = [queue |-> <<>>, rows |-> [e \in {} |-> {}], isset |-> {},
               table |-> t0, dirty |-> FALSE, cur |-> NoStmt,
               task |-> [t \in DbTasks |-> [pc |-> "idle", sql |-> "none",
                                            event |-> 0, ret |-> NoRet,
                                            ops |-> 0]],
               nev |-> 0, enq |-> <<>>, exe |-> <<>>,
               made |-> [e \in {} |-> {}]]

(* lines 96-104, 130-138, 166-175: event = Event(); _queue.put(...) *)
Put(t, sql, key) ==
    /\ db.task[t].pc = "idle"
    /\ db.task[t].ops < MaxOps
    /\ LET e == db.nev + 1
       IN  db' = [db EXCEPT
                    !.queue = Append(@, [sql |-> sql, key |-> key, event |-> e]),
                    !.nev = e,
                    !.enq = Append(@, e),
                    !.task[t] = [pc |-> "wait", sql |-> sql, event |-> e,
                                 ret |-> NoRet, ops |-> @.ops + 1]]
    /\ UNCHANGED DbRest

insert(t) == \E key \in DbKeys : Put(t, "insert", key)

update(t) == \E key \in DbKeys : Put(t, "update", key)

select(t) == \E key \in DbKeys : Put(t, "select", key)

(* lines 106-107, 140-141: event.wait() returns, the call returns True;    *)
(* line 177: event.wait() returns in select                                *)
Resume(t) ==
    /\ db.task[t].pc = "wait"
    /\ db.task[t].event \in db.isset
    /\ db' = [db EXCEPT !.task[t].pc = IF db.task[t].sql = "select"
                                       THEN "read" ELSE "idle",
                        !.task[t].ret = [ok |-> TRUE, rows |-> {}]]
    /\ UNCHANGED DbRest

(* lines 179-182: return _rows[event] *)
ReadRows(t) ==
    /\ db.task[t].pc = "read"
    /\ db' = [db EXCEPT !.task[t].pc = "idle",
                        !.task[t].ret =
                            [ok |-> TRUE,
                             rows |-> db.rows[RowsKey(db.task[t].event)]]]
    /\ UNCHANGED DbRest

(* line 280: sql, params, event = _queue.get() *)
W_L280 ==
    /\ db.cur = NoStmt
    /\ db.queue # <<>>
    /\ db' = [db EXCEPT !.cur = Head(db.queue), !.queue = Tail(@)]
    /\ UNCHANGED DbRest

(* the rows a statement produces on the table *)
Fetch(stmt, table) == {stmt.key} \cap table

(* lines 281-286: the statement executes; the rows of a select are stored, *)
(* the Event is set, and a write is committed when the queue is empty      *)
W_Executed ==
    /\ db.cur # NoStmt
    /\ LET stmt == db.cur
           sel == stmt.sql = "select"
           k == RowsKey(stmt.event)
       IN  db' = [db EXCEPT
                    !.cur = NoStmt,
                    !.table = IF stmt.sql = "insert" THEN @ \cup {stmt.key}
                              ELSE @,
                    !.rows = IF sel
                             THEN [e \in DOMAIN @ \cup {k} |->
                                      IF e = k THEN Fetch(stmt, db.table)
                                      ELSE @[e]]
                             ELSE @,
                    !.isset = @ \cup {stmt.event},
                    !.dirty = IF sel THEN @ ELSE db.queue # <<>>,
                    !.exe = Append(@, stmt.event),
                    !.made = [e \in DOMAIN @ \cup {stmt.event} |->
                                 IF e = stmt.event
                                 THEN (IF sel THEN Fetch(stmt, db.table)
                                       ELSE {})
                                 ELSE @[e]]]
    /\ UNCHANGED DbRest

(* line 281 raises (sqlite3.Error): lines 288-289 print the error and the  *)
(* loop goes on; lines 282-286 are skipped                                 *)
W_Raised ==
    /\ db.cur # NoStmt
    /\ db' = [db EXCEPT !.cur = NoStmt, !.exe = Append(@, db.cur.event)]
    /\ UNCHANGED DbRest

_execute == W_L280 \/ W_Executed \/ W_Raised

DbTask(t) == insert(t) \/ update(t) \/ select(t) \/ Resume(t) \/ ReadRows(t)

NextDb == _execute \/ \E t \in DbTasks : DbTask(t)

SpecDb == InitDb /\ [][NextDb]_vars

(* the worker thread and every task that can run do run *)
SpecDbLive ==
    /\ InitDb
    /\ [][NextDb]_vars
    /\ WF_vars(_execute)
    /\ \A t \in DbTasks : WF_vars(Resume(t)) /\ WF_vars(ReadRows(t))

(* C25: every operation enqueued by insert, update or select is            *)
(* eventually acknowledged: its Event is set and the caller that waits on  *)
(* it resumes, also when the statement fails in the worker.                *)
C25_EveryOperationAcknowledged ==
    \A t \in DbTasks :
        (db.task[t].pc = "wait")
            ~> (db.task[t].pc # "wait" /\ db.task[t].event \in db.isset)

(* C26: the worker executes the statements one at a time in the order in   *)
(* which they were put on the queue, and the rows a select returns to its  *)
(* caller are the rows its own statement produced.                         *)
C26_InOrderOwnRows ==
    /\ Len(db.exe) <= Len(db.enq)
    /\ \A i \in 1..Len(db.exe) : db.exe[i] = db.enq[i]
    /\ Len(db.exe) + (IF db.cur = NoStmt THEN 0 ELSE 1) + Len(db.queue)
           = Len(db.enq)
    /\ \A t \in DbTasks :
          (db.task[t].pc = "idle" /\ db.task[t].sql = "select")
              => db.task[t].ret.rows = db.made[db.task[t].event]

(* two tasks had a select each in the queue at once, both were executed    *)
(* and both callers have their rows, which differ                          *)
C26_TwoSelectsReturned ==
    /\ \A t \in DbTasks : db.task[t].pc = "idle" /\ db.task[t].sql = "select"
    /\ db.task[1].ret.rows # db.task[2].ret.rows
    /\ \E i \in 1..Len(db.exe) :
          /\ i < Len(db.exe)
          /\ {db.exe[i], db.exe[i + 1]} = {db.task[1].event, db.task[2].event}


----------------------------------------------------------------------------
(* send_request beside a late DRES accepted by the answering machine *)

(* send_request writes dres_at only at line 601 and then goes to line 615  *)
(* and returns: anywhere else a set dres_at was written by make_reply      *)
(* (line 358)                                                              *)
SetByAnsweringMachine == req.dres_at # 0 /\ loc.pc \notin {"L615", "done"}

(* a step of the send_request task itself *)
TaskStep == loc' # loc /\ delivered' = delivered

(* C36: once dres_at has been set by the answering machine (late DRES      *)
(* accepted), send_request starts no new phase: it creates no further      *)
(* Attempt, sends no further HREQ, RREQ or DREQ, overwrites none of state, *)
(* host and result, and returns the accepted result.                       *)
C36_NoNewPhaseAfterLateDres ==
    [][(SetByAnsweringMachine /\ TaskStep)
         => /\ Len(attempts') = Len(attempts)
            /\ sent'.hreq = sent.hreq
            /\ loc.pc \notin {"L513", "L557"}
            /\ req'.state = req.state
            /\ req'.host = req.host
            /\ req'.result = req.result
            /\ loc'.pc = "done" => loc'.ret # None]_vars


----------------------------------------------------------------------------
(* The DREQ phase against a host that is still executing: every DREQ that  *)
(* send_request sends is answered by a DWAIT of the chosen host, so sr1    *)
(* at line 561 never times out and returns that DWAIT.                     *)

WaitPackets == 6    \* packets delivered to the node in one run of SpecWait

WaitConsumer == ThreadDeep /\ loc.pc # "sr1_dreq"

WaitDeliver ==
    /\ Deliver(WaitPackets)
    /\ (loc.pc = "sr1_dreq" /\ loc'.pc # "sr1_dreq")
           => loc'.dres.state = DWAIT /\ loc'.dres.src = req.host

WaitAm == am.alive /\ AnsweringMachine

NextWait == WaitConsumer \/ WaitDeliver \/ WaitAm \/ Save

SpecWait == Init /\ [][NextWait]_vars

(* C37: in the DREQ phase each DWAIT of the chosen host sets the DREQ      *)
(* budget back to PROTO_RETRIES; as long as the chosen host answers every  *)
(* DREQ with DWAIT the request is never marked late and no attempt is      *)
(* left in DREQ for a new HREQ phase.                                      *)
C37_DwaitKeepsWaiting ==
    [][/\ (/\ TaskStep /\ loc.pc = "L566"
           /\ Truthy(loc.dres) /\ req.dres_at = 0
           /\ loc.dres.src = req.host /\ loc.dres.state = DWAIT)
          => loc'.dreq_rt = PROTO_RETRIES
       /\ ~req'.late
       /\ \A i \in 1..(Len(attempts') - 1) : attempts'[i].state # DREQ]_vars

(* the chosen host has answered the DREQ with DWAIT, the budget is back   *)
(* at PROTO_RETRIES and send_request sniffs for the DRES of that host      *)
C37_StillWaiting ==
    /\ loc.pc = "sniff_dres"
    /\ loc.dres.state = DWAIT
    /\ loc.dres.src = req.host
    /\ loc.dreq_rt = PROTO_RETRIES
    /\ delivered = WaitPackets
    /\ attempts[Len(attempts)].state = DREQ
    /\ ~req.late


(* C38: a request is marked late only when a DREQ phase ends with no       *)
(* retries left (line 620), and once marked late it stays late; a reply to *)
(* a DREQ from a host other than the chosen one gives back the retry that  *)
(* the DREQ took (line 574), so it does not consume the budget.            *)
C38_LateOnlyWhenExhausted ==
    [][/\ (~req.late /\ req'.late) => (loc.pc = "L619" /\ loc.dreq_rt = 0)
       /\ req.late => req'.late
       /\ (/\ TaskStep /\ loc.pc = "L566"
           /\ Truthy(loc.dres) /\ req.dres_at = 0
           /\ loc.dres.src # req.host)
          => loc'.dreq_rt = loc.dreq_rt + 1]_vars

(* a request that was marked late after its first DREQ phase has sent a    *)
(* DREQ to its new host and got the reply of another host: the retry is    *)
(* given back                                                              *)
C38_ForeignReplyAfterLate ==
    /\ req.late
    /\ loc.pc = "sniff_dres"
    /\ loc.dres.src # req.host
    /\ loc.dreq_rt = PROTO_RETRIES
    /\ req.dres_at = 0


(* C39: whenever a request has an accepted result, its host, its result    *)
(* and its DRES attempt agree: the result is the data of a DRES of the     *)
(* provider recorded in host, a DACK has been sent to that provider, and   *)
(* the attempt in state DRES records that host and has hreq_at, hres_at,   *)
(* rres_at and dres_at all set.                                            *)
C39_HostResultAttemptAgree ==
    req.result # None
        => /\ req.host \in Hosts
           /\ req.result = ResultOf(req.host)
           /\ sent.dack[req.host] > 0
           /\ \E i \in DOMAIN attempts : attempts[i].state = DRES
           /\ \A i \in DOMAIN attempts :
                 attempts[i].state = DRES
                     => /\ attempts[i].host = req.host
                        /\ attempts[i].hreq_at # 0
                        /\ attempts[i].hres_at # 0
                        /\ attempts[i].rres_at # 0
                        /\ attempts[i].dres_at # 0

====
